---- MODULE Spec2Model ----
(***************************************************************************)
(* State-machine model of the ResponsePane component                       *)
(* (packages/insomnia/src/ui/components/panes/response-pane.tsx).          *)
(*                                                                         *)
(* The state is the stored request metadata, the loader data the pane is   *)
(* rendered with, the position and locals of every handleSetFilter call    *)
(* in flight, the position and locals of the download and copy handlers,   *)
(* and the host effects the handlers produce (save dialog, body stream,    *)
(* write stream, output file, error modal, clipboard).                     *)
(***************************************************************************)
EXTENDS Integers, Sequences, FiniteSets, TLC

VARIABLES
    activeResponse,   \* loader data: the active response, or NoResponse
    requestMeta,      \* the stored request metadata record
    body,             \* the stored response body, as the chunks its stream delivers
    pc,               \* position of each handleSetFilter call
    arg,              \* its responseFilter argument
    hist,             \* its local 'responseFilterHistory' (lines 57-62)
    copyPc,           \* position of handleCopyResponseToClipboard
    clipboard,        \* window.clipboard contents
    dlPc,             \* position of handleDownloadResponseBody
    prettify,         \* its argument
    outputPath,       \* its local 'outputPath'
    readStream,       \* chunks the body stream has still to deliver
    dataBuffers,      \* its local 'dataBuffers'
    to,               \* the write stream 'to': Absent or what was queued on it
    file,             \* the file at the chosen path: Absent or its bytes
    saveDialogs,      \* number of save dialogs opened
    bodyStreams,      \* number of body streams requested
    writeStreams,     \* number of write streams created
    errorModals       \* the error modals shown

filterVars == <<requestMeta, pc, arg, hist>>
exportVars == <<copyPc, clipboard, dlPc, prettify, outputPath, readStream,
                dataBuffers, to, file, saveDialogs, bodyStreams, writeStreams,
                errorModals>>
vars == <<activeResponse, body, filterVars, exportVars>>

\* an absent response (activeResponse undefined): the record with an empty _id
NoResponse == [_id |-> "", parentId |-> "", error |-> "", contentType |-> <<>>]

\* an absent file, stream or clipboard text
Absent == [exists |-> FALSE, bytes |-> <<>>]
Present(bytes) == [exists |-> TRUE, bytes |-> bytes]

-----------------------------------------------------------------------------
(* Bounds of the model *)

\* number of handleSetFilter calls in one behaviour
MaxSubmits == 2
\* number of chunks of a stored body
MaxChunks == 3

(* Program constants *)

\* slice(0, 10)
HistoryCap == 10

PREVIEW_MODE_SOURCE == "source"

Procs == 1..MaxSubmits

Range(s) == {s[i] : i \in 1..Len(s)}

Min(a, b) == IF a < b THEN a ELSE b

-----------------------------------------------------------------------------
(* Inputs *)

\* a stored history holding ten distinct non-empty filters
BaseHistory == <<"f1", "f2", "f3", "f4", "f5", "f6", "f7", "f8", "f9", "f10">>

\* stored histories the pane may start from: the empty one, short ones,
\* and the ones one entry below and at the cap
InitHistories == {SubSeq(BaseHistory, 1, n) : n \in {0, 2, HistoryCap - 1, HistoryCap}}

\* filters the user submits: empty, one already stored, and new ones
SubmitFilters == {"", "f2", "f11", "f12"}

\* stored previewMode preferences ("" is an unset preference)
PreviewModes == {"", "friendly", "source", "raw"}

\* content types, as character sequences
CtJson == <<"a", "/", "j", "s", "o", "n">>
CtPlusJson == <<"x", "+", "j", "s", "o", "n">>
CtText == <<"t", "/", "j", "s">>
CtNone == <<>>
ContentTypes == {CtJson, CtPlusJson, CtText, CtNone}

Errors == {"", "ECONNREFUSED"}

Response(error, contentType) ==
    [_id |-> "res_1", parentId |-> "req_1", error |-> error, contentType |-> contentType]

\* bytes: '{' '}' ' ' '1' and a byte that is no valid UTF-8
Chunks == {<<123>>, <<32, 49>>, <<125>>, <<255>>}

RECURSIVE SeqsUpTo(_, _)
SeqsUpTo(S, n) ==
    IF n = 0 THEN {<<>>}
    ELSE LET shorter == SeqsUpTo(S, n - 1)
         IN  shorter \cup {Append(s, x) : s \in shorter, x \in S}

Bodies == SeqsUpTo(Chunks, MaxChunks)

-----------------------------------------------------------------------------
(* The filter history: handleSetFilter, lines 47-64 *)

\* meta.responseFilterHistory.slice(0, 10)
Slice(history, n) == SubSeq(history, 1, Min(Len(history), n))

\* responseFilterHistory.includes(responseFilter)
Includes(history, responseFilter) == responseFilter \in Range(history)

\* line 59 without the includes() test
OnlyEmptySkipped(history, responseFilter) == responseFilter = ""

\* line 59 without the test for the empty filter
OnlyIncludedSkipped(history, responseFilter) == Includes(history, responseFilter)

\* line 59: !responseFilter || responseFilterHistory.includes(responseFilter)
AlreadyInHistoryOrEmpty(history, responseFilter) ==
    responseFilter = "" \/ Includes(history, responseFilter)

\* line 62 with push() for unshift()
Push(history, responseFilter) == Append(history, responseFilter)

\* line 62: responseFilterHistory.unshift(responseFilter)
Unshift(history, responseFilter) == <<responseFilter>> \o history

\* line 184 passing handleSetFilter whatever the response's error
UpdateFilterAlways(response) == response # NoResponse

\* lines 182-184: updateFilter is handleSetFilter unless the response has an error
UpdateFilterAvailable(response) == response # NoResponse /\ response.error = ""

\* The user submits a filter through the viewer's updateFilter prop;
\* calls are numbered in the order they are made.  Lines 47-52: the
\* call returns at once without a response, else issues the patch of
\* responseFilter and awaits it.  The pane is rendered with the same
\* activeResponse throughout a behaviour.
SubmitFilter(p, responseFilter) ==
    /\ UpdateFilterAvailable(activeResponse)
    /\ pc[p] = "idle"
    /\ \A q \in Procs : q < p => pc[q] # "idle"
    /\ arg' = [arg EXCEPT ![p] = responseFilter]
    /\ pc' = [pc EXCEPT ![p] = IF activeResponse = NoResponse THEN "returned" ELSE "patchFilter"]
    /\ UNCHANGED <<activeResponse, body, requestMeta, hist, exportVars>>

\* line 52: the patch of responseFilter is applied to the stored metadata
PatchFilter(p) ==
    /\ pc[p] = "patchFilter"
    /\ requestMeta' = [requestMeta EXCEPT !.responseFilter = arg[p]]
    /\ pc' = [pc EXCEPT ![p] = "getMeta"]
    /\ UNCHANGED <<activeResponse, body, arg, hist, exportVars>>

\* lines 53-63: the metadata is read back; the history is sliced, the
\* filter is skipped or unshifted, and the patch of the history is issued.
\* The read follows the awaited patch of line 52, which leaves a record
\* stored, so the return of lines 54-56 is not taken.
GetMeta(p) ==
    /\ pc[p] = "getMeta"
    /\ LET meta == requestMeta
           responseFilterHistory == Slice(meta.responseFilterHistory, HistoryCap)
       IN  IF AlreadyInHistoryOrEmpty(responseFilterHistory, arg[p])
           THEN /\ pc' = [pc EXCEPT ![p] = "returned"]
                /\ hist' = [hist EXCEPT ![p] = responseFilterHistory]
           ELSE /\ pc' = [pc EXCEPT ![p] = "patchHistory"]
                /\ hist' = [hist EXCEPT ![p] = Unshift(responseFilterHistory, arg[p])]
    /\ UNCHANGED <<activeResponse, body, requestMeta, arg, exportVars>>

\* line 63 as a guarded update: the filter is merged into the history
\* stored when the patch is applied
PatchHistoryMerged(p) ==
    /\ pc[p] = "patchHistory"
    /\ LET stored == Slice(requestMeta.responseFilterHistory, HistoryCap)
       IN  requestMeta' =
              [requestMeta EXCEPT !.responseFilterHistory =
                  IF Includes(stored, arg[p]) THEN stored ELSE Unshift(stored, arg[p])]
    /\ pc' = [pc EXCEPT ![p] = "done"]
    /\ UNCHANGED <<activeResponse, body, arg, hist, exportVars>>

\* line 63: the patch of responseFilterHistory is applied
PatchHistory(p) ==
    /\ pc[p] = "patchHistory"
    /\ requestMeta' = [requestMeta EXCEPT !.responseFilterHistory = hist[p]]
    /\ pc' = [pc EXCEPT ![p] = "done"]
    /\ UNCHANGED <<activeResponse, body, arg, hist, exportVars>>

-----------------------------------------------------------------------------
(* The view: lines 39-46 and 127-186 *)

\* the loader's activeRequest; the route loader always supplies one
activeRequest == [_id |-> "req_1", name |-> "My Request"]
NoRequest == [_id |-> "", name |-> ""]

\* lines 127-146: which variant of the pane is rendered
View(request, response) ==
    IF request = NoRequest THEN "BlankPane"
    ELSE IF response = NoResponse THEN "PlaceholderResponsePane"
    ELSE "Pane"

\* line 46: activeRequestMeta.previewMode || PREVIEW_MODE_SOURCE
PreviewMode(meta) ==
    IF meta.previewMode = "" THEN PREVIEW_MODE_SOURCE ELSE meta.previewMode

\* line 182: the previewMode prop of the response viewer
ViewerPreviewMode(response, meta) ==
    IF response.error # "" THEN PREVIEW_MODE_SOURCE ELSE PreviewMode(meta)

-----------------------------------------------------------------------------
(* Bytes and text *)

RECURSIVE Concat(_)
\* Buffer.concat(dataBuffers)
Concat(buffers) ==
    IF buffers = <<>> THEN <<>> ELSE Head(buffers) \o Concat(Tail(buffers))

\* code point of the replacement character
Replacement == 65533

\* buffer.toString('utf8'): a byte that is no valid UTF-8 decodes to U+FFFD
Utf8Decode(bytes) ==
    [i \in 1..Len(bytes) |-> IF bytes[i] < 128 THEN bytes[i] ELSE Replacement]

RECURSIVE Utf8Encode(_)
\* the bytes a write stream stores for a string: U+FFFD is EF BF BD
Utf8Encode(text) ==
    IF text = <<>> THEN <<>>
    ELSE (IF Head(text) < 128 THEN <<Head(text)>> ELSE <<239, 191, 189>>)
         \o Utf8Encode(Tail(text))

RECURSIVE Indent(_)
\* one tab per nesting level
Indent(depth) == IF depth <= 0 THEN <<>> ELSE <<9>> \o Indent(depth - 1)

RECURSIVE PrettifyFrom(_, _)
\* the pretty-printer on text without strings: white space is dropped, an
\* opening brace starts an indented line, a closing brace a dedented one
PrettifyFrom(text, depth) ==
    IF text = <<>> THEN <<>>
    ELSE LET c == Head(text)
         IN  IF c = 32 THEN PrettifyFrom(Tail(text), depth)
             ELSE IF c = 123
                  THEN <<123, 10>> \o Indent(depth + 1) \o PrettifyFrom(Tail(text), depth + 1)
             ELSE IF c = 125
                  THEN <<10>> \o Indent(depth - 1) \o <<125>> \o PrettifyFrom(Tail(text), depth - 1)
             ELSE <<c>> \o PrettifyFrom(Tail(text), depth)

jsonPrettify(text) == PrettifyFrom(text, 0)

\* contentType.includes('json')
IncludesJson(contentType) ==
    \E i \in 1..Len(contentType) :
        /\ i + 3 <= Len(contentType)
        /\ SubSeq(contentType, i, i + 3) = <<"j", "s", "o", "n">>

-----------------------------------------------------------------------------
(* Copy: handleGetResponseBody and handleCopyResponseToClipboard, lines 65-76 *)

\* lines 65-76: without a response, or without a stored body, nothing is
\* written; else the body, decoded as UTF-8, goes to the clipboard
CopyResponseToClipboard ==
    /\ copyPc = "idle"
    /\ copyPc' = "done"
    /\ \E stored \in BOOLEAN :
          clipboard' = IF activeResponse # NoResponse /\ stored
                       THEN Present(Utf8Decode(Concat(body)))
                       ELSE clipboard
    /\ UNCHANGED <<activeResponse, body, filterVars, dlPc, prettify, outputPath,
                   readStream, dataBuffers, to, file, saveDialogs, bodyStreams,
                   writeStreams, errorModals>>

-----------------------------------------------------------------------------
(* Download: handleDownloadResponseBody, lines 80-125 *)

\* what the save dialog resolves to
DialogResults == {[canceled |-> TRUE, filePath |-> ""],
                  [canceled |-> FALSE, filePath |-> "/out"],
                  [canceled |-> FALSE, filePath |-> ""]}

\* errors of the write stream
WriteErrors == {"EACCES", "ENOSPC"}

\* line 116 without the test of the content type
WrittenContentAnyType(pretty, contentType, buffers) ==
    IF pretty
    THEN Utf8Encode(jsonPrettify(Utf8Decode(Concat(buffers))))
    ELSE Concat(buffers)

\* lines 107 and 116-120: what is written to the write stream
WrittenContent(pretty, contentType, buffers) ==
    IF pretty /\ IncludesJson(contentType)
    THEN Utf8Encode(jsonPrettify(Utf8Decode(Concat(buffers))))
    ELSE Concat(buffers)

\* lines 102-104: the 'data' listener
PushData(buffers, data) == Append(buffers, data)

\* lines 80-92 without the early return of lines 81-84
DownloadUnguarded(pretty) ==
    /\ dlPc = "idle"
    /\ prettify' = pretty
    /\ dlPc' = "dialog"
    /\ saveDialogs' = saveDialogs + 1
    /\ UNCHANGED <<activeResponse, body, filterVars, copyPc, clipboard, outputPath,
                   readStream, dataBuffers, to, file, bodyStreams, writeStreams,
                   errorModals>>

\* lines 80-92: without a response or request the handler warns and
\* returns; else it opens the save dialog and awaits it (the default path
\* offered by the dialog has no part in what follows)
DownloadResponseBody(pretty) ==
    /\ dlPc = "idle"
    /\ prettify' = pretty
    /\ IF activeResponse = NoResponse \/ activeRequest = NoRequest
       THEN /\ dlPc' = "nothing"
            /\ UNCHANGED saveDialogs
       ELSE /\ dlPc' = "dialog"
            /\ saveDialogs' = saveDialogs + 1
    /\ UNCHANGED <<activeResponse, body, filterVars, copyPc, clipboard, outputPath,
                   readStream, dataBuffers, to, file, bodyStreams, writeStreams,
                   errorModals>>

\* lines 88-104 with the body stream requested before 'canceled' is tested
SaveDialogResolvesStreamFirst(result) ==
    /\ dlPc = "dialog"
    /\ outputPath' = result.filePath
    /\ bodyStreams' = bodyStreams + 1
    /\ IF result.canceled
       THEN /\ dlPc' = "canceled"
            /\ UNCHANGED readStream
       ELSE \E stored \in BOOLEAN :
               IF stored /\ result.filePath # ""
               THEN /\ dlPc' = "reading"
                    /\ readStream' = body
               ELSE /\ dlPc' = "noStream"
                    /\ UNCHANGED readStream
    /\ UNCHANGED <<activeResponse, body, filterVars, copyPc, clipboard, prettify,
                   dataBuffers, to, file, saveDialogs, writeStreams, errorModals>>

\* lines 88-104: the dialog resolves; unless it was canceled the body
\* stream is requested and, given a stream and a path, listened to
SaveDialogResolves(result) ==
    /\ dlPc = "dialog"
    /\ outputPath' = result.filePath
    /\ IF result.canceled
       THEN /\ dlPc' = "canceled"
            /\ UNCHANGED <<bodyStreams, readStream>>
       ELSE /\ bodyStreams' = bodyStreams + 1
            /\ \E stored \in BOOLEAN :
                  IF stored /\ result.filePath # ""
                  THEN /\ dlPc' = "reading"
                       /\ readStream' = body
                  ELSE /\ dlPc' = "noStream"
                       /\ UNCHANGED readStream
    /\ UNCHANGED <<activeResponse, body, filterVars, copyPc, clipboard, prettify,
                   dataBuffers, to, file, saveDialogs, writeStreams, errorModals>>

\* lines 102-104: the stream delivers its next chunk
StreamData ==
    /\ dlPc = "reading"
    /\ readStream # <<>>
    /\ dataBuffers' = PushData(dataBuffers, Head(readStream))
    /\ readStream' = Tail(readStream)
    /\ UNCHANGED <<activeResponse, body, filterVars, copyPc, clipboard, dlPc,
                   prettify, outputPath, to, file, saveDialogs, bodyStreams,
                   writeStreams, errorModals>>

\* the stream fails before its end: no listener of the handler runs
StreamError ==
    /\ dlPc = "reading"
    /\ dlPc' = "streamError"
    /\ UNCHANGED <<activeResponse, body, filterVars, copyPc, clipboard, prettify,
                   outputPath, readStream, dataBuffers, to, file, saveDialogs,
                   bodyStreams, writeStreams, errorModals>>

\* lines 105-123: the 'end' listener creates the write stream, writes
\* the content to it and ends it
StreamEnd ==
    /\ dlPc = "reading"
    /\ readStream = <<>>
    /\ writeStreams' = writeStreams + 1
    /\ to' = Present(WrittenContent(prettify, activeResponse.contentType, dataBuffers))
    /\ dlPc' = "writing"
    /\ UNCHANGED <<activeResponse, body, filterVars, copyPc, clipboard, prettify,
                   outputPath, readStream, dataBuffers, file, saveDialogs,
                   bodyStreams, errorModals>>

\* the write stream stores what was queued on it
WriteFinish ==
    /\ dlPc = "writing"
    /\ file' = Present(to.bytes)
    /\ dlPc' = "saved"
    /\ UNCHANGED <<activeResponse, body, filterVars, copyPc, clipboard, prettify,
                   outputPath, readStream, dataBuffers, to, saveDialogs,
                   bodyStreams, writeStreams, errorModals>>

\* lines 108-114 without the 'error' listener
WriteErrorUnreported(err) ==
    /\ dlPc = "writing"
    /\ file' = IF err = "EACCES" THEN file ELSE Present(<<>>)
    /\ dlPc' = "saveFailed"
    /\ UNCHANGED <<activeResponse, body, filterVars, copyPc, clipboard, prettify,
                   outputPath, readStream, dataBuffers, to, saveDialogs,
                   bodyStreams, writeStreams, errorModals>>

\* lines 108-114: the 'error' listener of the write stream shows the modal;
\* the file could not be opened, or was opened and not written
WriteError(err) ==
    /\ dlPc = "writing"
    /\ errorModals' = Append(errorModals,
                             [title |-> "Save Failed",
                              message |-> "Failed to save response body",
                              error |-> err])
    /\ file' = IF err = "EACCES" THEN file ELSE Present(<<>>)
    /\ dlPc' = "saveFailed"
    /\ UNCHANGED <<activeResponse, body, filterVars, copyPc, clipboard, prettify,
                   outputPath, readStream, dataBuffers, to, saveDialogs,
                   bodyStreams, writeStreams>>

-----------------------------------------------------------------------------
(* Specifications *)

InitFilter ==
    /\ \E h \in InitHistories, m \in PreviewModes :
          requestMeta = [responseFilter |-> "", responseFilterHistory |-> h,
                         previewMode |-> m]
    /\ pc = [p \in Procs |-> "idle"]
    /\ arg = [p \in Procs |-> ""]
    /\ hist = [p \in Procs |-> <<>>]

InitExport ==
    /\ copyPc = "idle"
    /\ clipboard = Absent
    /\ dlPc = "idle"
    /\ prettify = FALSE
    /\ outputPath = ""
    /\ readStream = <<>>
    /\ dataBuffers = <<>>
    /\ to = Absent
    /\ file = Absent
    /\ saveDialogs = 0
    /\ bodyStreams = 0
    /\ writeStreams = 0
    /\ errorModals = <<>>

\* the pane with its filter and copy actions, over one stored body
Init ==
    /\ activeResponse \in {NoResponse} \cup {Response(e, CtJson) : e \in Errors}
    /\ body = <<<<123>>, <<125>>>>
    /\ InitFilter
    /\ InitExport

Next ==
    \/ \E p \in Procs, f \in SubmitFilters : SubmitFilter(p, f)
    \/ \E p \in Procs : PatchFilter(p)
    \/ \E p \in Procs : GetMeta(p)
    \/ \E p \in Procs : PatchHistory(p)
    \/ CopyResponseToClipboard

Spec == Init /\ [][Next]_vars

\* the pane with its copy and download actions, over every response and body
InitAllBodies ==
    /\ activeResponse \in {NoResponse} \cup {Response(e, ct) : e \in Errors, ct \in ContentTypes}
    /\ body \in Bodies
    /\ requestMeta = [responseFilter |-> "", responseFilterHistory |-> <<>>,
                      previewMode |-> ""]
    /\ pc = [p \in Procs |-> "idle"]
    /\ arg = [p \in Procs |-> ""]
    /\ hist = [p \in Procs |-> <<>>]
    /\ InitExport

NextExport ==
    \/ CopyResponseToClipboard
    \/ \E pretty \in BOOLEAN : DownloadResponseBody(pretty)
    \/ \E result \in DialogResults : SaveDialogResolves(result)
    \/ StreamData
    \/ StreamError
    \/ StreamEnd
    \/ WriteFinish
    \/ \E err \in WriteErrors : WriteError(err)

SpecExport == InitAllBodies /\ [][NextExport]_vars

-----------------------------------------------------------------------------
(* Properties *)

History == requestMeta.responseFilterHistory

\* the first ten entries of a history
FirstTen(h) == SubSeq(h, 1, IF Len(h) < 10 THEN Len(h) ELSE 10)

\* no handleSetFilter call is in flight
Quiescent == \A p \in Procs : pc[p] \in {"idle", "returned", "done"}

\* the calls made with a non-empty filter
NonEmptyCalls == {p \in Procs : pc[p] # "idle" /\ arg[p] # ""}

\* the last of them
LastNonEmptyCall == CHOOSE p \in NonEmptyCalls : \A q \in NonEmptyCalls : q <= p

\* C1: the persisted responseFilterHistory never has more than 10 entries.
C1_HistoryAtMostTen == Len(History) <= 10

\* C2 as claimed: once the submissions have completed, the last non-empty
\* filter submitted is at index 0 of the history, also when it was already
\* in the history.
C2_LastSubmittedAtFront ==
    (Quiescent /\ NonEmptyCalls # {}) =>
        (History # <<>> /\ History[1] = arg[LastNonEmptyCall])

\* C2 as amended: a submission whose filter is non-empty and not among the
\* first ten entries it reads prepares that filter followed by those
\* entries in their stored order, and every change of the stored history
\* stores such a list, with the filter of the submission at index 0; a
\* submission whose filter is empty or among those entries leaves the
\* history as it is.
C2_InsertedAtFront ==
    [][ /\ \A p \in Procs :
              (pc[p] = "getMeta" /\ pc'[p] = "patchHistory") =>
                  /\ arg[p] # ""
                  /\ arg[p] \notin Range(FirstTen(History))
                  /\ hist'[p] = <<arg[p]>> \o FirstTen(History)
        /\ \A p \in Procs :
              (pc[p] = "getMeta" /\ pc'[p] = "returned") =>
                  /\ arg[p] = "" \/ arg[p] \in Range(FirstTen(History))
                  /\ History' = History
        /\ History' # History =>
              \E p \in Procs :
                  /\ pc[p] = "patchHistory" /\ pc'[p] = "done"
                  /\ History' = hist[p]
                  /\ History'[1] = arg[p]
      ]_vars

\* a filter was inserted at the front, and a later submission of a filter
\* already in the history left it behind the front
C2_Witness ==
    /\ Quiescent
    /\ pc[1] = "done" /\ pc[2] = "returned" /\ arg[2] # ""
    /\ History[1] = arg[1]
    /\ \E i \in 2..Len(History) : History[i] = arg[2]

\* C3: the persisted responseFilterHistory never holds the same filter
\* twice, whether submissions overlap or not.
C3_NoDuplicates ==
    \A i, j \in 1..Len(History) : i # j => History[i] # History[j]

\* two overlapping submissions of the same new filter have both read the
\* same history and both written theirs
C3_Witness ==
    /\ pc[1] = "done" /\ pc[2] = "done"
    /\ arg[1] = arg[2]
    /\ Tail(hist[1]) = Tail(hist[2])
    /\ History[1] = arg[1]

\* C4: the persisted responseFilterHistory never holds the empty string,
\* and a submission of any filter, the empty one included, persists it as
\* responseFilter.
C4_NoEmptyString ==
    /\ []("" \notin Range(History))
    /\ [][\A p \in Procs :
             (pc[p] = "patchFilter" /\ pc'[p] = "getMeta") =>
                 requestMeta'.responseFilter = arg[p]]_vars

\* after a filter was stored, the empty filter was submitted and persisted
\* as responseFilter
C4_Witness ==
    /\ pc[1] = "done" /\ pc[2] = "returned" /\ arg[2] = ""
    /\ requestMeta.responseFilter = ""
    /\ History # <<>>

\* C5: without an active response the placeholder is rendered, the
\* download opens no dialog, requests no body stream and writes no file,
\* and the copy writes nothing to the clipboard.
C5_NoResponseNoOps ==
    activeResponse = NoResponse =>
        /\ View(activeRequest, activeResponse) = "PlaceholderResponsePane"
        /\ saveDialogs = 0 /\ bodyStreams = 0 /\ writeStreams = 0
        /\ to = Absent /\ file = Absent /\ errorModals = <<>>
        /\ clipboard = Absent

\* both actions were invoked without an active response
C5_Witness ==
    activeResponse = NoResponse /\ dlPc = "nothing" /\ copyPc = "done"

\* C6: with an error on the active response the viewer's preview mode is
\* "source" whatever the stored preference, no filter update is available,
\* and no step changes the stored metadata or starts a filter submission.
C6_ErrorForcesSource ==
    /\ [](activeResponse.error # "" =>
             /\ ViewerPreviewMode(activeResponse, requestMeta) = "source"
             /\ ~ENABLED (\E p \in Procs, f \in SubmitFilters : SubmitFilter(p, f)))
    /\ [][activeResponse.error # "" => (requestMeta' = requestMeta /\ pc' = pc)]_vars

\* a user action took place on an error response whose stored preference
\* is another preview mode
C6_Witness ==
    /\ activeResponse.error # ""
    /\ requestMeta.previewMode = "friendly"
    /\ copyPc = "done" /\ clipboard.exists

\* the bytes the claim expects in the file
C7_Expected ==
    IF prettify /\ IncludesJson(activeResponse.contentType)
    THEN Utf8Encode(jsonPrettify(Utf8Decode(Concat(body))))
    ELSE Concat(body)

\* C7: once the body stream has run to its end, what is written is the
\* pretty-printed text of the body when prettify is set and the content
\* type includes json, and else the chunks of the body in arrival order.
C7_WrittenContent ==
    /\ dlPc \in {"writing", "saved", "saveFailed"} => to = Present(C7_Expected)
    /\ dlPc = "saved" => file = Present(C7_Expected)

\* a body of several chunks was saved pretty-printed, which differs from
\* its raw bytes
C7_Witness ==
    /\ dlPc = "saved" /\ prettify
    /\ activeResponse.contentType = CtPlusJson
    /\ Len(body) >= 2
    /\ file.bytes # Concat(body)

\* C8: a canceled save dialog leads to no body stream, no write stream,
\* no file and no error modal.
C8_CancelNoWrite ==
    dlPc = "canceled" =>
        /\ bodyStreams = 0 /\ writeStreams = 0
        /\ readStream = <<>> /\ dataBuffers = <<>>
        /\ to = Absent /\ file = Absent /\ errorModals = <<>>

\* the dialog of a prettified download was canceled
C8_Witness == dlPc = "canceled" /\ prettify /\ saveDialogs = 1

\* C9: nothing guards overlapping submissions: when a submission stores
\* its history, the filter of every completed submission that had read the
\* same history and stored another filter is lost from the history.
C9_LostUpdate ==
    [][\A p, q \in Procs :
          (/\ p # q
           /\ pc[p] = "done"
           /\ pc[q] = "patchHistory" /\ pc'[q] = "done"
           /\ Tail(hist[p]) = Tail(hist[q])
           /\ arg[p] # arg[q]) =>
              (arg[q] \in Range(History') /\ arg[p] \notin Range(History'))]_vars

\* two submissions of distinct new filters read the same history; after
\* both completed the history holds one of the two, and responseFilter is
\* not the filter at its front
C9_Witness ==
    /\ Quiescent
    /\ pc[1] = "done" /\ pc[2] = "done"
    /\ arg[1] # arg[2]
    /\ Tail(hist[1]) = Tail(hist[2])
    /\ (arg[1] \in Range(History)) # (arg[2] \in Range(History))
    /\ requestMeta.responseFilter # History[1]

\* C10: a missing body stream, or one that fails before its end, creates
\* no write stream and no file and shows no modal; an error of the write
\* stream shows the 'Save Failed' modal with the error, once, and no
\* further write stream is created.
C10_FailurePaths ==
    /\ dlPc \in {"noStream", "streamError"} =>
          /\ writeStreams = 0 /\ to = Absent /\ file = Absent
          /\ errorModals = <<>>
    /\ dlPc = "saveFailed" =>
          /\ Len(errorModals) = 1
          /\ errorModals[1].title = "Save Failed"
          /\ errorModals[1].message = "Failed to save response body"
          /\ errorModals[1].error \in WriteErrors
          /\ writeStreams = 1
    /\ errorModals # <<>> => dlPc = "saveFailed"

\* the body stream failed after it had delivered a chunk
C10_Witness == dlPc = "streamError" /\ dataBuffers # <<>>

====
